---- MODULE Spec2Model ----
(***************************************************************************)
(* Kinetic particle cloud: the zustand store (src/store.ts), the webcam    *)
(* hand tracker (src/components/WebcamHandTracker.tsx), the per-frame      *)
(* physics of the renderer (src/components/Particles.tsx) and the prompt   *)
(* panel with the config generator (Controls, src/unnamed/part_000, and    *)
(* generateParticleConfig, src/store.ts:70-105).                           *)
(*                                                                         *)
(* Numbers.  JavaScript numbers are binary64.  The renderer's quantities   *)
(* (hand position, momentum, scale) are kept here as integers counting     *)
(* millionths (0.5 is 500000); every product with a decimal factor is      *)
(* rounded to the nearest millionth, which stands for the rounding         *)
(* binary64 performs at its own, much finer, resolution.  Landmark         *)
(* coordinates are integers counting tenths of the normalised image.       *)
(***************************************************************************)
EXTENDS Integers, Sequences, FiniteSets, TLC

VARIABLES
    \* ---- store (src/store.ts:48-64)
    handPosition,      \* None or Some([x, y, z]), in millionths
    isHandDetected,
    gesture,           \* "OPEN", "CLOSED", "NEUTRAL" or Null
    config,            \* ParticleConfig record
    error,             \* Null or a message
    \* ---- WebcamHandTracker effect closure
    trackerPc,         \* where the asynchronous startup stands
    trackerMounted,    \* FALSE once the effect cleanup has run (videoRef.current is null)
    handLandmarker,    \* "null", "open", "closed"
    video,             \* "null" or "set" (the closure's video variable)
    stream,            \* "none", "live", "stopped"
    rafPending,        \* a requestAnimationFrame(predictWebcam) callback is scheduled
    isLoaded,
    videoTime,         \* video.currentTime, counted in delivered frames
    lastVideoTime,
    \* ---- Particles refs
    momentum,          \* [x, y] in millionths
    lastHandPos,       \* None or Some([x, y, z])
    currentScale,      \* millionths
    uTime,             \* the shader's time uniform, kept as the parity of the frame count
    \* ---- Controls
    controlsMounted,
    prompt,
    isLoading,
    isOpen,
    request,           \* "idle" or "pending": the generateParticleConfig promise
    \* ---- observation
    frames,            \* rendered frames so far, up to MaxLeadFrames
    idleFrames,        \* consecutive rendered frames without a hand, up to DecayFrames
    lastLandmarks,     \* None or Some(landmarks) of the last processed detection
    detections,        \* video frames the tracker has processed, up to MaxVideoFrames + 1
    reacquired,        \* the tracker found a hand where the store had none, and no frame
                       \* has been rendered since
    lastOutcome,       \* how the last generation request settled
    atSubmit,          \* None or Some(config) as stored when the pending request was submitted
    atUnmount,         \* None or Some([config, error]) as stored when Controls unmounted
    writers            \* per store field, the producers that have assigned it

vars == <<handPosition, isHandDetected, gesture, config, error,
          trackerPc, trackerMounted, handLandmarker, video, stream, rafPending,
          isLoaded, videoTime, lastVideoTime,
          momentum, lastHandPos, currentScale, uTime,
          controlsMounted, prompt, isLoading, isOpen, request,
          frames, idleFrames, lastLandmarks, detections, reacquired, lastOutcome,
          atSubmit,
          atUnmount, writers>>

storeVars    == <<handPosition, isHandDetected, gesture, config, error>>
handVars     == <<handPosition, isHandDetected, gesture>>
trackerVars  == <<trackerPc, trackerMounted, handLandmarker, video, stream,
                  rafPending, isLoaded, videoTime, lastVideoTime>>
renderVars   == <<momentum, lastHandPos, currentScale, uTime, frames, idleFrames>>
controlsVars == <<controlsMounted, prompt, isLoading, isOpen, request, lastOutcome,
                  atSubmit, atUnmount>>

\* null for the string-valued fields; a nullable object is <<>> or <<object>>
Null == "null"
None == <<>>
Some(v) == <<v>>

\* ------------------------------------------------------------------ bounds
MaxVideoFrames == 2
MaxLeadFrames  == 5

\* --------------------------------------------------------------- constants
LERP_SPEED_PCT    == 12
MOMENTUM_LERP_PCT == 15
FRICTION_PCT      == 98
SNAP_THRESHOLD    == 100
MAX_SPEED         == 500000
SCALE_CLOSED      == 400000
SCALE_OPEN        == 1300000
SCALE_NORMAL      == 1000000
DecayFrames       == 423

MsgModel    == "Failed to load hand tracking. Please ensure your browser supports WebGPU/WebGL."
MsgCamera   == "Camera access denied."
MsgGenerate == "Failed to generate config. Check API Key or try again."

\* -------------------------------------------------------------- arithmetic
Abs(n) == IF n < 0 THEN -n ELSE n

\* n / d (d > 0) rounded to the nearest integer, halves away from zero
RoundDiv(n, d) ==
    IF n >= 0 THEN (2 * n + d) \div (2 * d) ELSE -((2 * (-n) + d) \div (2 * d))

LerpMutant(x, y, tPct) == x + RoundDiv(tPct * y, 100)

\* THREE.MathUtils.lerp(x, y, t) = (1 - t) * x + t * y, t given in percent
Lerp(x, y, tPct) == RoundDiv((100 - tPct) * x + tPct * y, 100)

\* THREE.MathUtils.clamp(value, min, max) = Math.max(min, Math.min(max, value))
Clamp(value, min, max) ==
    LET m == IF value < max THEN value ELSE max
    IN  IF m > min THEN m ELSE min

\* ------------------------------------------------------------ hand tracker
\* Landmark indices read by predictWebcam: wrist 0, thumb ip 3 / tip 4 (never
\* read by the classifier), index 6/8, middle 10/12, ring 14/16, pinky 18/20.
Wrist == <<5, 9, 0>>

IndexTips == { <<0, 0, 0>>, <<5, 5, -1>>, <<10, 10, 0>> }
IndexPips == { <<5, 5, 0>>, <<5, -2, 0>> }
\* <<tip, pip>> of a finger: curled in, stretched out, and tip level with pip
FingerPoses == { << <<5, 8, 0>>, <<5, 7, 0>> >>,
                 << <<5, 3, 0>>, <<5, 6, 0>> >>,
                 << <<3, 9, 0>>, <<5, 7, 0>> >> }
ThumbPoses  == { << <<4, 8, 0>>, <<3, 7, 0>> >>, << <<1, 6, 0>>, <<3, 7, 0>> >> }

MakeLandmarks(tip8, pip6, mid, ring, pinky, thumb) ==
    (0 :> Wrist) @@ (3 :> thumb[2]) @@ (4 :> thumb[1])
    @@ (6 :> pip6) @@ (8 :> tip8)
    @@ (10 :> mid[2]) @@ (12 :> mid[1])
    @@ (14 :> ring[2]) @@ (16 :> ring[1])
    @@ (18 :> pinky[2]) @@ (20 :> pinky[1])

\* The hands the landmark model may report
Hands == { MakeLandmarks(t, p, m, r, k, th) :
             t \in IndexTips, p \in IndexPips, m \in FingerPoses,
             r \in FingerPoses, k \in FingerPoses, th \in ThumbPoses }

\* results.landmarks: empty, or one hand (numHands: 1)
DetectionResults == { <<>> } \cup { <<h>> : h \in Hands }

\* One hand for each index-tip position and each gesture (0, 2 and 4 fingers
\* folded), for the specifications that only look at what the tracker stores
SampleHands ==
    LET in  == << <<5, 8, 0>>, <<5, 7, 0>> >>
        out == << <<5, 3, 0>>, <<5, 6, 0>> >>
        th  == << <<4, 8, 0>>, <<3, 7, 0>> >>
    IN  { MakeLandmarks(t, <<5, 5, 0>>, m[1], m[2], m[3], th) :
            t \in IndexTips, m \in { <<out, out, out>>, <<in, in, out>> } }
        \cup { MakeLandmarks(t, <<5, -2, 0>>, in, in, in, th) : t \in IndexTips }

SampleResults == { <<>> } \cup { <<h>> : h \in SampleHands }

\* Math.hypot(a.x - b.x, a.y - b.y, a.z - b.z), compared through its square
Hypot2(a, b) ==
    (a[1] - b[1]) * (a[1] - b[1]) + (a[2] - b[2]) * (a[2] - b[2])
    + (a[3] - b[3]) * (a[3] - b[3])

isFingerFolded(landmarks, tipIdx, pipIdx) ==
    Hypot2(landmarks[tipIdx], landmarks[0]) < Hypot2(landmarks[pipIdx], landmarks[0])

foldedCount(landmarks) ==
    (IF isFingerFolded(landmarks, 8, 6) THEN 1 ELSE 0)
    + (IF isFingerFolded(landmarks, 12, 10) THEN 1 ELSE 0)
    + (IF isFingerFolded(landmarks, 16, 14) THEN 1 ELSE 0)
    + (IF isFingerFolded(landmarks, 20, 18) THEN 1 ELSE 0)

GestureOfMutant(landmarks) ==
    LET n == foldedCount(landmarks) + (IF isFingerFolded(landmarks, 4, 3) THEN 1 ELSE 0)
    IN  IF n >= 4 THEN "CLOSED" ELSE IF n <= 1 THEN "OPEN" ELSE "NEUTRAL"

GestureOf(landmarks) ==
    IF foldedCount(landmarks) >= 4 THEN "CLOSED"
    ELSE IF foldedCount(landmarks) <= 1 THEN "OPEN"
    ELSE "NEUTRAL"

\* new Vector3((0.5 - tip.x) * 10, (0.5 - tip.y) * 8, tip.z * -10); tip in tenths
ScenePosition(indexTip) ==
    [x |-> (5 - indexTip[1]) * 1000000,
     y |-> (5 - indexTip[2]) * 800000,
     z |-> indexTip[3] * (-1000000)]

Wrote(fields, producer) ==
    [f \in DOMAIN writers |-> IF f \in fields THEN writers[f] \cup {producer} ELSE writers[f]]

\* setupMediaPipe: both awaits resolved; setIsLoaded(true); startWebcam() runs
\* up to its await of getUserMedia (or returns at once without mediaDevices).
ModelLoaded ==
    /\ trackerPc = "loading"
    /\ handLandmarker' = "open"
    /\ isLoaded' = TRUE
    /\ \E hasMediaDevices \in BOOLEAN :
          trackerPc' = IF hasMediaDevices THEN "permission" ELSE "idle"
    /\ UNCHANGED <<storeVars, trackerMounted, video, stream, rafPending, videoTime,
                   lastVideoTime, renderVars, controlsVars, lastLandmarks, reacquired, detections, writers>>

\* setupMediaPipe: an await rejected; the catch sets the store's error
ModelLoadFailed ==
    /\ trackerPc = "loading"
    /\ trackerPc' = "failed"
    /\ error' = MsgModel
    /\ writers' = Wrote({"error"}, "tracker")
    /\ UNCHANGED <<handVars, config, trackerMounted, handLandmarker, video, stream,
                   rafPending, isLoaded, videoTime, lastVideoTime, renderVars,
                   controlsVars, lastLandmarks, reacquired, detections>>

\* startWebcam: getUserMedia resolved with a live stream; it is attached only
\* if videoRef.current is still there
CameraGranted ==
    /\ trackerPc = "permission"
    /\ stream' = "live"
    /\ IF trackerMounted
       THEN video' = "set" /\ trackerPc' = "attached"
       ELSE video' = video /\ trackerPc' = "idle"
    /\ UNCHANGED <<storeVars, trackerMounted, handLandmarker, rafPending, isLoaded,
                   videoTime, lastVideoTime, renderVars, controlsVars, lastLandmarks, reacquired,
                   detections, writers>>

\* startWebcam: getUserMedia rejected
CameraDenied ==
    /\ trackerPc = "permission"
    /\ trackerPc' = "failed"
    /\ error' = MsgCamera
    /\ writers' = Wrote({"error"}, "tracker")
    /\ UNCHANGED <<handVars, config, trackerMounted, handLandmarker, video, stream,
                   rafPending, isLoaded, videoTime, lastVideoTime, renderVars,
                   controlsVars, lastLandmarks, reacquired, detections>>

\* video.currentTime as a callback may read it: unchanged since the last
\* callback, or advanced by a newly delivered video frame
CurrentTimes ==
    {videoTime} \cup (IF videoTime < MaxVideoFrames /\ frames < MaxLeadFrames
                      THEN {videoTime + 1} ELSE {})

\* detectForVideo is called, and so returns a result, only on a new video frame
DetectInputs(now, resultSet) ==
    IF handLandmarker # "null" /\ video # "null" /\ now # lastVideoTime
    THEN resultSet ELSE { <<>> }

predictWebcamMutant(now, results) ==
    /\ videoTime' = now
    /\ IF handLandmarker = "null" \/ video = "null"
       THEN UNCHANGED <<handVars, lastVideoTime, rafPending, lastLandmarks, reacquired, detections, writers>>
       ELSE /\ IF now # lastVideoTime
               THEN /\ lastVideoTime' = now
                    /\ detections' = detections + 1
                    /\ writers' = Wrote({"isHandDetected", "handPosition", "gesture"}, "tracker")
                    /\ IF Len(results) > 0
                       THEN /\ isHandDetected' = TRUE
                            /\ handPosition' = Some(ScenePosition(results[1][8]))
                            /\ gesture' = GestureOf(results[1])
                            /\ lastLandmarks' = Some(results[1])
                            /\ reacquired' = (reacquired \/ ~isHandDetected)
                       ELSE /\ isHandDetected' = FALSE
                            /\ handPosition' = None
                            /\ gesture' = gesture
                            /\ lastLandmarks' = None
                            /\ reacquired' = FALSE
               ELSE UNCHANGED <<handVars, lastVideoTime, lastLandmarks, reacquired, detections, writers>>
            /\ rafPending' = TRUE

\* Body of predictWebcam; now is video.currentTime, results is what
\* detectForVideo returns for this frame
predictWebcam(now, results) ==
    /\ videoTime' = now
    /\ IF handLandmarker = "null" \/ video = "null"
       THEN UNCHANGED <<handVars, lastVideoTime, rafPending, lastLandmarks, reacquired, detections, writers>>
       ELSE /\ IF now # lastVideoTime
               THEN /\ lastVideoTime' = now
                    /\ detections' = detections + 1
                    /\ writers' = Wrote({"isHandDetected", "handPosition", "gesture"}, "tracker")
                    /\ IF Len(results) > 0
                       THEN /\ isHandDetected' = TRUE
                            /\ handPosition' = Some(ScenePosition(results[1][8]))
                            /\ gesture' = GestureOf(results[1])
                            /\ lastLandmarks' = Some(results[1])
                            /\ reacquired' = (reacquired \/ ~isHandDetected)
                       ELSE /\ isHandDetected' = FALSE
                            /\ handPosition' = None
                            /\ gesture' = Null
                            /\ lastLandmarks' = None
                            /\ reacquired' = FALSE
               ELSE UNCHANGED <<handVars, lastVideoTime, lastLandmarks, reacquired, detections, writers>>
            /\ rafPending' = TRUE

\* The video element's "loadeddata" event calls predictWebcam
LoadedData(resultSet) ==
    /\ trackerPc = "attached"
    /\ stream = "live"
    /\ trackerPc' = "running"
    /\ \E now \in CurrentTimes :
          \E results \in DetectInputs(now, resultSet) : predictWebcam(now, results)
    /\ UNCHANGED <<config, error, trackerMounted, handLandmarker, video, stream, isLoaded,
                   renderVars, controlsVars>>

\* The scheduled animation-frame callback calls predictWebcam
AnimationFrame(resultSet) ==
    /\ rafPending
    /\ \E now \in CurrentTimes :
          \E results \in DetectInputs(now, resultSet) : predictWebcam(now, results)
    /\ UNCHANGED <<config, error, trackerPc, trackerMounted, handLandmarker, video, stream,
                   isLoaded, renderVars, controlsVars>>

\* The effect's cleanup on unmount
TrackerCleanup ==
    /\ trackerMounted
    /\ trackerMounted' = FALSE
    /\ stream' = IF video = "set" /\ stream = "live" THEN "stopped" ELSE stream
    /\ rafPending' = FALSE
    /\ handLandmarker' = IF handLandmarker # "null" THEN "closed" ELSE handLandmarker
    /\ UNCHANGED <<storeVars, trackerPc, video, isLoaded, videoTime, lastVideoTime,
                   renderVars, controlsVars, lastLandmarks, reacquired, detections, writers>>

\* ---------------------------------------------------------------- renderer
\* useFrame, EXPANSION PHYSICS: the scale target for this frame
TargetScaleMutant(detected, g) ==
    IF detected
    THEN IF g = "CLOSED" \/ g = "OPEN" THEN SCALE_OPEN ELSE SCALE_NORMAL
    ELSE SCALE_NORMAL

TargetScale(detected, g) ==
    IF detected
    THEN IF g = "CLOSED" THEN SCALE_CLOSED
         ELSE IF g = "OPEN" THEN SCALE_OPEN
         ELSE SCALE_NORMAL
    ELSE SCALE_NORMAL

\* useFrame, hand branch: momentum blended toward the hand's velocity
TrackedMomentum(m, hand, last) ==
    LET dx == hand.x - last.x
        dy == hand.y - last.y
        targetVelX == RoundDiv((-dy) * 5, 10)
        targetVelY == RoundDiv(dx * 5, 10)
    IN  [x |-> Lerp(m.x, targetVelX, MOMENTUM_LERP_PCT),
         y |-> Lerp(m.y, targetVelY, MOMENTUM_LERP_PCT)]

FrictionMutant(v) ==
    LET w == RoundDiv(v * 102, 100)
    IN  IF Abs(w) < SNAP_THRESHOLD THEN 0 ELSE w

\* useFrame, RELEASED / IDLE branch, one component: friction, then the snap to 0
Friction(v) ==
    LET w == RoundDiv(v * FRICTION_PCT, 100)
    IN  IF Abs(w) < SNAP_THRESHOLD THEN 0 ELSE w

ClampMomentumMutant(m) ==
    [x |-> Clamp(m.x, -MAX_SPEED, MAX_SPEED), y |-> m.y]

\* useFrame: the MAX_SPEED clamp
ClampMomentum(m) ==
    [x |-> Clamp(m.x, -MAX_SPEED, MAX_SPEED),
     y |-> Clamp(m.y, -MAX_SPEED, MAX_SPEED)]

\* The useFrame callback.  It reads the store as of this frame.  The mesh and
\* the material are mounted whenever frames are rendered; the shader uniforms
\* and the accumulated rotation angles are outputs only and are not kept.
UseFrame ==
    /\ uTime' = 1 - uTime
    /\ currentScale' = Lerp(currentScale, TargetScale(isHandDetected, gesture), LERP_SPEED_PCT)
    /\ IF isHandDetected /\ handPosition # None
       THEN LET hand == handPosition[1]
                last == IF lastHandPos = None THEN hand ELSE lastHandPos[1]
            IN  /\ momentum' = ClampMomentum(TrackedMomentum(momentum, hand, last))
                /\ lastHandPos' = Some(hand)
                /\ idleFrames' = 0
       ELSE /\ lastHandPos' = None
            /\ momentum' = ClampMomentum([x |-> Friction(momentum.x), y |-> Friction(momentum.y)])
            /\ idleFrames' = IF idleFrames < DecayFrames THEN idleFrames + 1 ELSE idleFrames
    /\ frames' = IF frames < MaxLeadFrames THEN frames + 1 ELSE frames
    /\ reacquired' = FALSE
    /\ UNCHANGED <<storeVars, trackerVars, controlsVars, lastLandmarks, detections, writers>>

\* ------------------------------------------------- store config, generator
\* Numeric config fields count hundredths (particleSize 0.15 is 15),
\* particleCount counts particles.
DEFAULT_CONFIG ==
    [color1 |-> "#00ffff", color2 |-> "#ff00ff", particleSize |-> 15, speed |-> 100,
     noiseScale |-> 100, interactionRadius |-> 200, particleCount |-> 8000]

RequiredFields == {"color1", "color2", "particleSize", "speed", "noiseScale"}
OptionalFields == {"interactionRadius", "particleCount"}

\* Objects the service may answer with under the response schema
Responses ==
    { [color1 |-> "#0ff", color2 |-> "#f0f", particleSize |-> 20, speed |-> 200,
       noiseScale |-> 150],
      [color1 |-> "#ff4500", color2 |-> "#ffa500", particleSize |-> 30, speed |-> 400,
       noiseScale |-> 250, interactionRadius |-> 300, particleCount |-> 12000],
      [color1 |-> "#1e90ff", color2 |-> "#00ced1", particleSize |-> 10, speed |-> 50,
       noiseScale |-> 30, interactionRadius |-> 150],
      [color1 |-> "#00ffff", color2 |-> "#ff00ff", particleSize |-> 15, speed |-> 100,
       noiseScale |-> 100, particleCount |-> 3000] }

\* What ai.models.generateContent may do: reject, or resolve with a response
\* whose text is empty, is not JSON, or is the JSON text of an object
Replies ==
    { [rejected |-> TRUE, hasText |-> FALSE, parses |-> FALSE, body |-> None],
      [rejected |-> FALSE, hasText |-> FALSE, parses |-> FALSE, body |-> None],
      [rejected |-> FALSE, hasText |-> TRUE, parses |-> FALSE, body |-> None] }
    \cup { [rejected |-> FALSE, hasText |-> TRUE, parses |-> TRUE, body |-> Some(r)] :
             r \in Responses }

\* One reply of each kind, for the specification that runs the panel next to
\* the tracker
SampleReplies ==
    { r \in Replies : r.parses =>
        r.body = Some([color1 |-> "#0ff", color2 |-> "#f0f", particleSize |-> 20,
                       speed |-> 200, noiseScale |-> 150]) }

generateParticleConfigMutant(reply) ==
    IF reply.rejected THEN [ok |-> FALSE, value |-> None]
    ELSE IF reply.parses THEN [ok |-> TRUE, value |-> reply.body]
         ELSE [ok |-> TRUE, value |-> Some(<<>>)]

\* generateParticleConfig: the parsed object, or a throw
generateParticleConfig(reply) ==
    IF reply.rejected THEN [ok |-> FALSE, value |-> None]
    ELSE IF reply.hasText
         THEN IF reply.parses THEN [ok |-> TRUE, value |-> reply.body]
              ELSE [ok |-> FALSE, value |-> None]
         ELSE [ok |-> FALSE, value |-> None]

MergeConfigMutant(old, newConfig) ==
    [f \in DOMAIN old |-> IF f \in DOMAIN newConfig THEN newConfig[f] ELSE DEFAULT_CONFIG[f]]

\* setConfig: { ...state.config, ...newConfig }
MergeConfig(old, newConfig) ==
    [f \in DOMAIN old \cup DOMAIN newConfig |->
        IF f \in DOMAIN newConfig THEN newConfig[f] ELSE old[f]]

\* String.prototype.trim on the prompts the model types
Trim(p) == IF p = "  " THEN "" ELSE p

Prompts == {"", "  ", "Cyberpunk Rain"}

\* onChange of the input; the input is disabled while loading
SetPrompt ==
    /\ controlsMounted /\ isOpen /\ ~isLoading
    /\ \E p \in Prompts : prompt' = p
    /\ UNCHANGED <<storeVars, trackerVars, renderVars, controlsMounted, isLoading, isOpen,
                   request, lastOutcome, atSubmit, atUnmount, lastLandmarks, reacquired, detections,
                   writers>>

\* The panel's collapse and expand buttons
ToggleOpen ==
    /\ controlsMounted
    /\ isOpen' = ~isOpen
    /\ UNCHANGED <<storeVars, trackerVars, renderVars, controlsMounted, prompt, isLoading,
                   request, lastOutcome, atSubmit, atUnmount, lastLandmarks, reacquired, detections,
                   writers>>

\* handleSubmit up to its await of generateParticleConfig
HandleSubmit ==
    /\ controlsMounted /\ isOpen /\ ~isLoading
    /\ IF Trim(prompt) = ""
       THEN UNCHANGED <<error, isLoading, request, atSubmit, writers>>
       ELSE /\ isLoading' = TRUE
            /\ error' = Null
            /\ writers' = Wrote({"error"}, "prompt")
            /\ request' = "pending"
            /\ atSubmit' = Some(config)
    /\ UNCHANGED <<handVars, config, trackerVars, renderVars, controlsMounted, prompt, isOpen,
                   lastOutcome, atUnmount, lastLandmarks, reacquired, detections>>

RequestSettledMutant(replySet) ==
    /\ request = "pending"
    /\ request' = "idle"
    /\ \E reply \in replySet :
          LET res == generateParticleConfig(reply)
          IN  /\ IF ~controlsMounted
                 THEN UNCHANGED <<config, prompt, error, writers>>
                 ELSE IF res.ok
                 THEN /\ config' = MergeConfig(config, res.value[1])
                      /\ prompt' = ""
                      /\ error' = error
                      /\ writers' = Wrote({"config"}, "prompt")
                 ELSE /\ error' = MsgGenerate
                      /\ writers' = Wrote({"error"}, "prompt")
                      /\ UNCHANGED <<config, prompt>>
              /\ lastOutcome' = [kind |-> IF res.ok THEN "ok" ELSE "failed",
                                 reply |-> Some(reply),
                                 mounted |-> controlsMounted]
    /\ isLoading' = IF controlsMounted THEN FALSE ELSE isLoading
    /\ UNCHANGED <<handVars, trackerVars, renderVars, controlsMounted, isOpen, atSubmit,
                   atUnmount, lastLandmarks, reacquired, detections>>

\* handleSubmit after the await: try / catch / finally.  The setters of the
\* component's own state do nothing once it has unmounted.
RequestSettled(replySet) ==
    /\ request = "pending"
    /\ request' = "idle"
    /\ \E reply \in replySet :
          LET res == generateParticleConfig(reply)
          IN  /\ IF res.ok
                 THEN /\ config' = MergeConfig(config, res.value[1])
                      /\ prompt' = IF controlsMounted THEN "" ELSE prompt
                      /\ error' = error
                      /\ writers' = Wrote({"config"}, "prompt")
                 ELSE /\ error' = MsgGenerate
                      /\ writers' = Wrote({"error"}, "prompt")
                      /\ UNCHANGED <<config, prompt>>
              /\ lastOutcome' = [kind |-> IF res.ok THEN "ok" ELSE "failed",
                                 reply |-> Some(reply),
                                 mounted |-> controlsMounted]
    /\ isLoading' = IF controlsMounted THEN FALSE ELSE isLoading
    /\ UNCHANGED <<handVars, trackerVars, renderVars, controlsMounted, isOpen, atSubmit,
                   atUnmount, lastLandmarks, reacquired, detections>>

\* Controls unmounts; its useState cells are gone, the pending promise is not
ControlsUnmount ==
    /\ controlsMounted
    /\ controlsMounted' = FALSE
    /\ prompt' = ""
    /\ isLoading' = FALSE
    /\ isOpen' = TRUE
    /\ atUnmount' = Some([config |-> config, error |-> error])
    /\ UNCHANGED <<storeVars, trackerVars, renderVars, request, lastOutcome, atSubmit,
                   lastLandmarks, reacquired, detections, writers>>

\* ------------------------------------------------------------ specifications
StoreFields == {"handPosition", "isHandDetected", "gesture", "config", "error"}

Init ==
    /\ handPosition = None /\ isHandDetected = FALSE /\ gesture = Null
    /\ config = DEFAULT_CONFIG /\ error = Null
    /\ trackerPc = "loading" /\ trackerMounted = TRUE /\ handLandmarker = "null"
    /\ video = "null" /\ stream = "none" /\ rafPending = FALSE /\ isLoaded = FALSE
    /\ videoTime = 0 /\ lastVideoTime = -1
    /\ momentum = [x |-> 0, y |-> 0] /\ lastHandPos = None /\ currentScale = SCALE_NORMAL
    /\ uTime = 0
    /\ controlsMounted = TRUE /\ prompt = "" /\ isLoading = FALSE /\ isOpen = TRUE
    /\ request = "idle"
    /\ frames = 0 /\ idleFrames = 0 /\ lastLandmarks = None /\ detections = 0
    /\ reacquired = FALSE
    /\ lastOutcome = [kind |-> "none", reply |-> None, mounted |-> TRUE]
    /\ atSubmit = None /\ atUnmount = None
    /\ writers = [f \in StoreFields |-> {}]

\* The tracker with the prompt panel: the producers of the store
Next ==
    \/ ModelLoaded \/ ModelLoadFailed \/ CameraGranted \/ CameraDenied
    \/ LoadedData(SampleResults) \/ AnimationFrame(SampleResults)
    \/ TrackerCleanup
    \/ SetPrompt \/ ToggleOpen \/ HandleSubmit \/ RequestSettled(SampleReplies)
    \/ ControlsUnmount

Spec == Init /\ [][Next]_vars

\* The tracker alone, over every hand
NextTracker ==
    \/ ModelLoaded \/ ModelLoadFailed \/ CameraGranted \/ CameraDenied
    \/ LoadedData(DetectionResults) \/ AnimationFrame(DetectionResults)
    \/ TrackerCleanup

SpecTracker == Init /\ [][NextTracker]_vars

\* The prompt panel alone, over every reply
NextControls ==
    \/ SetPrompt \/ ToggleOpen \/ HandleSubmit \/ RequestSettled(Replies)
    \/ ControlsUnmount

SpecControls == Init /\ [][NextControls]_vars

\* The running tracker with the renderer, from the moment the camera stream
\* is attached to the video element (the state Spec reaches by ModelLoaded and
\* CameraGranted)
InitRender ==
    /\ handPosition = None /\ isHandDetected = FALSE /\ gesture = Null
    /\ config = DEFAULT_CONFIG /\ error = Null
    /\ trackerPc = "attached" /\ trackerMounted = TRUE /\ handLandmarker = "open"
    /\ video = "set" /\ stream = "live" /\ rafPending = FALSE /\ isLoaded = TRUE
    /\ videoTime = 0 /\ lastVideoTime = -1
    /\ momentum = [x |-> 0, y |-> 0] /\ lastHandPos = None /\ currentScale = SCALE_NORMAL
    /\ uTime = 0
    /\ controlsMounted = TRUE /\ prompt = "" /\ isLoading = FALSE /\ isOpen = TRUE
    /\ request = "idle"
    /\ frames = 0 /\ idleFrames = 0 /\ lastLandmarks = None /\ detections = 0
    /\ reacquired = FALSE
    /\ lastOutcome = [kind |-> "none", reply |-> None, mounted |-> TRUE]
    /\ atSubmit = None /\ atUnmount = None
    /\ writers = [f \in StoreFields |-> {}]

NextRender ==
    \/ LoadedData(SampleResults) \/ AnimationFrame(SampleResults)
    \/ UseFrame

SpecRender == InitRender /\ [][NextRender]_vars

\* ------------------------------------------------------------------ claims
Zero == [x |-> 0, y |-> 0]
HandSeen == isHandDetected /\ handPosition # None
Rendered == uTime' # uTime
Settled == request = "pending" /\ request' = "idle"

\* C1 (as stated): after every rendered frame the Euclidean length of the
\* momentum vector is at most MAX_SPEED.  Lengths are compared through their
\* squares, in thousandths rounded toward zero.
C1_MagnitudeAtMostMaxSpeed ==
    LET mx == Abs(momentum.x) \div 1000
        my == Abs(momentum.y) \div 1000
        max == MAX_SPEED \div 1000
    IN  mx * mx + my * my <= max * max

\* C1 (amended): after every rendered frame each momentum component lies in
\* [-MAX_SPEED, MAX_SPEED], so the length is at most MAX_SPEED times the square
\* root of 2.
C1_ComponentsAtMostMaxSpeed ==
    LET mx == Abs(momentum.x) \div 1000
        my == Abs(momentum.y) \div 1000
        max == MAX_SPEED \div 1000
    IN  /\ Abs(momentum.x) <= MAX_SPEED
        /\ Abs(momentum.y) <= MAX_SPEED
        /\ mx * mx + my * my <= 2 * max * max

\* A frame has clamped both components of a fast diagonal hand movement
C1_Witness ==
    /\ frames > 0
    /\ Abs(momentum.x) = MAX_SPEED
    /\ Abs(momentum.y) = MAX_SPEED

ClaimFolded(landmarks) ==
    { p \in { <<8, 6>>, <<12, 10>>, <<16, 14>>, <<20, 18>> } :
        Hypot2(landmarks[p[1]], landmarks[0]) < Hypot2(landmarks[p[2]], landmarks[0]) }

\* C2: for the hand of the last processed detection, the stored gesture is
\* CLOSED exactly when 4 of the counted fingers are folded, OPEN exactly when at
\* most 1 is, NEUTRAL exactly when 2 or 3 are, whatever the thumb does.
C2_GestureByFoldedCount ==
    lastLandmarks # None =>
        LET n == Cardinality(ClaimFolded(lastLandmarks[1]))
        IN  /\ (gesture = "CLOSED") <=> (n >= 4)
            /\ (gesture = "OPEN") <=> (n <= 1)
            /\ (gesture = "NEUTRAL") <=> (n = 2 \/ n = 3)

\* Three counted fingers folded and the thumb folded too: stored as NEUTRAL
C2_Witness ==
    /\ lastLandmarks # None
    /\ Cardinality(ClaimFolded(lastLandmarks[1])) = 3
    /\ Hypot2(lastLandmarks[1][4], lastLandmarks[1][0])
         < Hypot2(lastLandmarks[1][3], lastLandmarks[1][0])
    /\ gesture = "NEUTRAL"

\* C3: when a generation response is merged, every field the response carries
\* takes the response's value and every other field keeps its stored value.
C3_MergeFieldByField ==
    [][ (Settled /\ lastOutcome'.kind = "ok") =>
          LET r == lastOutcome'.reply[1].body[1]
          IN  /\ DOMAIN config' = DOMAIN config
              /\ RequiredFields \subseteq DOMAIN r
              /\ \A f \in DOMAIN config :
                    config'[f] = IF f \in DOMAIN r THEN r[f] ELSE config[f] ]_vars

\* A response without the optional fields was merged into a configuration whose
\* optional fields an earlier response had changed
C3_Witness ==
    /\ lastOutcome.kind = "ok"
    /\ DOMAIN lastOutcome.reply[1].body[1] = RequiredFields
    /\ config.color1 = lastOutcome.reply[1].body[1].color1
    /\ config.interactionRadius # DEFAULT_CONFIG.interactionRadius
    /\ config.particleCount # DEFAULT_CONFIG.particleCount

\* C4: when the request rejects, or its response has no text, or the text does
\* not parse, the stored configuration is the one stored at submission, the
\* error is the fixed message and the loading flag is off.
C4_FailureKeepsConfig ==
    [][ (Settled /\ LET reply == lastOutcome'.reply[1]
                    IN  reply.rejected \/ ~reply.hasText \/ ~reply.parses) =>
          /\ config' = atSubmit[1]
          /\ error' = MsgGenerate
          /\ ~isLoading' ]_vars

\* A submission failed on unparsable text after an earlier one had changed the
\* configuration
C4_Witness ==
    /\ lastOutcome.kind = "failed"
    /\ lastOutcome.mounted
    /\ lastOutcome.reply[1].hasText
    /\ config # DEFAULT_CONFIG
    /\ config = atSubmit[1]
    /\ error = MsgGenerate
    /\ ~isLoading

\* C5: on frames that see no hand the absolute value of each momentum
\* component does not grow, and after DecayFrames such frames in a row both
\* components are zero (and so stay zero).
C5_IdleMomentumDecays ==
    [][ (Rendered /\ ~HandSeen) =>
          /\ Abs(momentum'.x) <= Abs(momentum.x)
          /\ Abs(momentum'.y) <= Abs(momentum.y)
          /\ (idleFrames' >= DecayFrames => momentum' = Zero) ]_vars

\* A long run of frames without a hand with the momentum still decaying
C5_Witness ==
    /\ idleFrames >= 400
    /\ momentum.x # 0
    /\ momentum.y # 0
    /\ ~HandSeen

\* C6 (as stated): once tracking initialisation has failed, the store's error
\* is the tracker's message from then on, and no detection frame is processed.
C6_TrackerErrorPersists ==
    trackerPc = "failed" =>
        /\ error = (IF handLandmarker = "null" THEN MsgModel ELSE MsgCamera)
        /\ detections = 0
        /\ ~rafPending

\* C7 (as stated): once the tracker has been torn down and its startup has
\* nothing pending, the camera stream is not live, no detection callback is
\* scheduled and the detector is not left open.
C7_TeardownReleasesEverything ==
    (~trackerMounted /\ trackerPc \in {"idle", "attached", "running", "failed"}) =>
        /\ stream # "live"
        /\ ~rafPending
        /\ handLandmarker # "open"

\* C8 (as stated): a request that settles after the panel unmounted leaves the
\* stored configuration and error as they were at the unmount.
C8_ResultIgnoredAfterUnmount ==
    ~lastOutcome.mounted =>
        /\ config = atUnmount[1].config
        /\ error = atUnmount[1].error

\* C8 (amended): a request that settles after the panel unmounted is applied
\* to the store like any other: a parsed response is merged into the
\* configuration, a failure sets the error to the fixed message.
C8_ResultAppliedAfterUnmount ==
    [][ (Settled /\ ~controlsMounted) =>
          IF lastOutcome'.kind = "ok"
          THEN /\ config' = MergeConfig(config, lastOutcome'.reply[1].body[1])
               /\ error' = error
          ELSE /\ config' = config
               /\ error' = MsgGenerate ]_vars

\* A response arrived after the unmount and changed the stored configuration
C8_Witness ==
    /\ ~lastOutcome.mounted
    /\ lastOutcome.kind = "ok"
    /\ config # atUnmount[1].config

\* C9 (as stated): no store field has been assigned by both the tracker and
\* the prompt path.
C9_OneWriterPerField ==
    \A f \in StoreFields : Cardinality(writers[f]) <= 1

ClaimTarget ==
    IF isHandDetected /\ gesture = "CLOSED" THEN 400000
    ELSE IF isHandDetected /\ gesture = "OPEN" THEN 1300000
    ELSE 1000000

\* C10 (as stated): each frame sets the scale to old + 0.12 * (target - old),
\* the target being 0.4, 1.3 or 1.0 by gesture, and whenever the scale differs
\* from the target the frame moves it strictly closer without passing it.
C10_ScaleStrictlyCloser ==
    [][ Rendered =>
          LET d == ClaimTarget - currentScale
          IN  /\ currentScale' = currentScale + RoundDiv(12 * d, 100)
              /\ (d > 0 => currentScale' <= ClaimTarget)
              /\ (d < 0 => currentScale' >= ClaimTarget)
              /\ (d # 0 => Abs(ClaimTarget - currentScale') < Abs(d)) ]_vars

\* C10 (amended): each frame sets the scale to old + 0.12 * (target - old)
\* rounded to the arithmetic's resolution; the frame never moves the scale away
\* from the target nor past it, and moves it strictly closer whenever 0.12 times
\* the gap is at least half of that resolution.
C10_ScaleCloserUpToRounding ==
    [][ Rendered =>
          LET d == ClaimTarget - currentScale
          IN  /\ currentScale' = currentScale + RoundDiv(12 * d, 100)
              /\ (d > 0 => currentScale' <= ClaimTarget)
              /\ (d < 0 => currentScale' >= ClaimTarget)
              /\ Abs(ClaimTarget - currentScale') <= Abs(d)
              /\ (12 * Abs(d) >= 50 => Abs(ClaimTarget - currentScale') < Abs(d)) ]_vars

\* The fifth frame of the gesture sequence none, OPEN, OPEN, CLOSED, none:
\* 1.0, 1.036, 1.06768, 0.987558, 0.989051
C10_Witness ==
    /\ frames = 5
    /\ ~isHandDetected
    /\ currentScale = 989051


\* C11: a frame that starts with the scale equal to its target leaves the
\* scale unchanged (and so does every later frame while the target stays).
C11_ScaleFixedPoint ==
    [][ (Rendered /\ currentScale = ClaimTarget) => currentScale' = currentScale ]_vars

\* Frames have been rendered with a hand in view, gesture NEUTRAL, and the
\* scale rests on its target 1.0
C11_Witness ==
    /\ frames >= 2
    /\ isHandDetected
    /\ gesture = "NEUTRAL"
    /\ lastHandPos # None
    /\ currentScale = ClaimTarget

\* C12: a step of the tracker that processes a video frame leaves the three
\* hand fields in agreement: hand found, flag set, position there, gesture one
\* of the three; no hand, flag off, position and gesture null.  The store's
\* hand fields are written only by such a step, and such a step happens only
\* when the video's timestamp differs from the last processed one.
C12_HandFieldsAgree ==
    [][ /\ (detections' # detections) =>
              /\ videoTime' # lastVideoTime
              /\ IF lastLandmarks' # None
                 THEN /\ isHandDetected' = TRUE
                      /\ handPosition' # None
                      /\ gesture' \in {"OPEN", "CLOSED", "NEUTRAL"}
                 ELSE /\ isHandDetected' = FALSE
                      /\ handPosition' = None
                      /\ gesture' = Null
        /\ (detections' = detections) =>
              /\ UNCHANGED <<handPosition, isHandDetected, gesture>>
              /\ \A f \in {"handPosition", "isHandDetected", "gesture"} :
                    writers'[f] = writers[f] ]_vars

\* A hand was found on one video frame and none on a later one: all cleared
C12_Witness ==
    /\ detections >= 2
    /\ lastLandmarks = None
    /\ ~isHandDetected /\ handPosition = None /\ gesture = Null
    /\ "tracker" \in writers["gesture"]
    /\ rafPending

\* C13 (as stated): the first frame rendered after the tracker found a hand
\* where the store had none computes a zero hand velocity, so the momentum is
\* only blended toward zero, whatever position was seen before the loss.
C13_ZeroVelocityOnReacquire ==
    [][ (Rendered /\ reacquired /\ HandSeen) =>
          momentum' = ClampMomentum([x |-> Lerp(momentum.x, 0, MOMENTUM_LERP_PCT),
                                     y |-> Lerp(momentum.y, 0, MOMENTUM_LERP_PCT)]) ]_vars

====
